---- MODULE Spec2Model ----
(***************************************************************************)
(* Model of the SaleorAPI dispatch layer (src/index.ts): the error         *)
(* normalizer handleDataErrors, the promise plumbing firePromise /         *)
(* fireQuery, the signIn orchestration and the watched-query subscription. *)
(*                                                                         *)
(* JavaScript values are modelled as tagged records so that null,          *)
(* undefined, strings, lists and objects can be compared with each other   *)
(* and so that JavaScript truthiness (an empty list is truthy) is kept.    *)
(***************************************************************************)
EXTENDS Integers, Sequences, FiniteSets, TLC

VARIABLES
  normIn,        \* the arguments of the last handleDataErrors evaluation
  normOut,       \* its outcome
  tokenStore,    \* the Token Store: the live auth token or null
  credentials,   \* credentials handed to navigator.credentials.store
  hasPasswordCredential, \* window.PasswordCredential is available
  si,            \* the signIn call in progress
  nSignIn,       \* number of signIn calls made
  fq,            \* the fireQuery call in progress
  wq,            \* the watched-query subscription
  emitted,       \* results emitted by the subscription, in order
  calls,         \* callback invocations made for the subscription, in order
  handleDropped, \* the caller dropped the handle of the watched query
  lastTokenOp,   \* the last operation made on the Token Store
  listeners,     \* the callbacks passed to attachAuthListener
  authEvents,    \* the "auth" events fired, in order
  authCalls,     \* invocations of the auth listeners' callbacks, in order
  req,           \* an operation travelling through the link chain
  sent,          \* the requests that reached the network, in order
  rf,            \* the refetch call in progress
  nRefetch       \* number of refetch calls made

listenerVars == <<listeners, authEvents, authCalls>>
linkVars == <<req, sent>>
refetchVars == <<rf, nRefetch>>
extVars == <<listenerVars, linkVars, refetchVars>>
vars == <<normIn, normOut, tokenStore, credentials, hasPasswordCredential,
          si, nSignIn, fq, wq, emitted, calls, handleDropped,
          lastTokenOp, extVars>>
normVars == <<normIn, normOut>>
authVars == <<tokenStore, lastTokenOp, credentials, hasPasswordCredential,
              si, nSignIn>>
fireVars == <<fq>>
watchVars == <<wq, emitted, calls, handleDropped>>

\* ------------------------------------------------------------------------
\* Bounds of the model
\* ------------------------------------------------------------------------
\* number of results a watched-query subscription may emit
MaxEmit == 2
\* number of signIn calls made over a run
MaxSignIn == 2
\* number of refetch calls made over a run
MaxRefetch == 2
\* number of "auth" events fired over a run
MaxEvents == 2
\* number of times each repeated operation is made when the operations of
\* the dispatch layer are interleaved
MaxFrame == 1
\* number of requests, sign-ins and invalidations made while signIn replaces
\* the token of requests in flight
MaxStale == 2
\* number of attempts RetryLink makes for one operation
MaxAttempts == 2
\* number of attempts that reach the network over a run
MaxSent == 3

\* ------------------------------------------------------------------------
\* JavaScript values
\* ------------------------------------------------------------------------
Null == [tag |-> "null"]
Undefined == [tag |-> "undefined"]
Str(s) == [tag |-> "str", s |-> s]
List(items) == [tag |-> "list", items |-> items]
Obj(fields) == [tag |-> "obj", fields |-> fields]
\* the value of an expression whose evaluation raised a TypeError
Thrown == [tag |-> "throw"]

\* JavaScript truthiness of a value: null, undefined and "" are falsy,
\* every list (also the empty one) and every object is truthy
Truthy(v) ==
  /\ v.tag \notin {"null", "undefined"}
  /\ ~(v.tag = "str" /\ v.s = "")

\* property access o.k on a JavaScript value
Field(o, k) ==
  IF o.tag \in {"null", "undefined"} THEN Thrown
  ELSE IF o.tag = "obj" /\ k \in DOMAIN o.fields THEN o.fields[k]
  ELSE Undefined

\* new ApolloError({ extraInfo, graphQLErrors })
ApolloError(extraInfo, graphQLErrors) ==
  [tag |-> "ApolloError", extraInfo |-> extraInfo,
   graphQLErrors |-> graphQLErrors]

\* ------------------------------------------------------------------------
\* Payloads the backend can return
\* ------------------------------------------------------------------------
\* a domain error as declared by the generated types (field, message)
DomainErr == Obj([field |-> Str("password"),
                  message |-> Str("Invalid credentials")])
\* a GraphQL (transport level) error entry
GraphQLErr == Obj([message |-> Str("Internal Server Error")])

\* errors: ..._errors[] | null  of a mutation payload
ErrorLists == {Null, List(<<>>), List(<<DomainErr>>)}
Tokens == {"T1", "T2"}

\* TokenAuth["tokenCreate"]: { token, errors } or null
TokenCreatePayloads ==
  {Null} \cup
  {Obj([token |-> t, errors |-> e]) :
     t \in {Null} \cup {Str(s) : s \in Tokens}, e \in ErrorLists}

\* a mutation payload of UpdateCheckoutShippingAddress: { checkout, errors }
CheckoutPayloads ==
  {Null} \cup
  {Obj([checkout |-> c, errors |-> e]) :
     c \in {Null, Obj([id |-> Str("c1")])}, e \in ErrorLists}

\* the payload of the AddressTypeUpdate mutation: { user, errors } or null
AddressPayloads ==
  {Null} \cup
  {Obj([user |-> u, errors |-> e]) :
     u \in {Null, Obj([id |-> Str("u1")])}, e \in ErrorLists}

\* a query payload (product): no errors field
ProductPayloads == {Null, Obj([name |-> Str("X")]), Obj([name |-> Str("Y")])}

\* the order Object.keys enumerates the children of a data object
KeyOrder ==
  <<"tokenCreate", "product", "addressSetDefault",
    "checkoutShippingAddressUpdate", "checkoutEmailUpdate">>

TokenAuthData ==
  {Null, Undefined} \cup {Obj([tokenCreate |-> p]) : p \in TokenCreatePayloads}
ProductData ==
  {Null, Undefined} \cup {Obj([product |-> p]) : p \in ProductPayloads}
AddressData ==
  {Null, Undefined} \cup {Obj([addressSetDefault |-> p]) : p \in AddressPayloads}
CheckoutData ==
  {Null, Undefined} \cup
  {Obj([checkoutShippingAddressUpdate |-> p, checkoutEmailUpdate |-> q]) :
     p \in CheckoutPayloads, q \in CheckoutPayloads}

\* errors?: readonly GraphQLError[]  of a raw result
ApolloErrorLists == {Undefined, List(<<>>), List(<<GraphQLErr>>)}

\* ------------------------------------------------------------------------
\* Helpers of ./utils
\* ------------------------------------------------------------------------
\* the non-empty errors list of child k of data, as a sequence
ChildErrors(data, k) ==
  IF /\ k \in DOMAIN data.fields
     /\ data.fields[k].tag = "obj"
     /\ "errors" \in DOMAIN data.fields[k].fields
     /\ data.fields[k].fields.errors.tag = "list"
  THEN data.fields[k].fields.errors.items
  ELSE <<>>

RECURSIVE CollectErrors(_, _)
CollectErrors(data, i) ==
  IF i > Len(KeyOrder) THEN <<>>
  ELSE ChildErrors(data, KeyOrder[i]) \o CollectErrors(data, i + 1)

\* the domain errors embedded in data, or null when there are none
getErrorsFromData(data) ==
  IF data.tag # "obj" THEN Null
  ELSE IF CollectErrors(data, 1) = <<>> THEN Null
  ELSE List(CollectErrors(data, 1))

\* data is empty: the root is null/absent or every direct child is null
isDataEmpty(data) ==
  \/ data.tag \in {"null", "undefined"}
  \/ /\ data.tag = "obj"
     /\ \A k \in DOMAIN data.fields : data.fields[k].tag \in {"null", "undefined"}

\* mapFn is a projection data => data.<key>; it is modelled by its key
MapFns == {"tokenCreate", "product", "addressSetDefault",
           "checkoutShippingAddressUpdate", "checkoutEmailUpdate"}
ApplyMapFn(mapFn, data) == Field(data, mapFn)

\* the projection, guarded against an absent payload
getMappedData(mapFn, data) ==
  IF Truthy(data) THEN ApplyMapFn(mapFn, data) ELSE Null

\* ------------------------------------------------------------------------
\* The error handler
\* ------------------------------------------------------------------------
\* handleDataErrors that returns the errors whenever there are any, whether
\* the data is empty or not
handleDataErrorsStrict(mapFn, data, apolloErrors) ==
  LET userInputErrors == getErrorsFromData(data)
      errors ==
        IF Truthy(apolloErrors) \/ Truthy(userInputErrors)
        THEN ApolloError(userInputErrors, apolloErrors)
        ELSE Null
  IN IF Truthy(errors)
     THEN [errors |-> errors]
     ELSE [data |-> getMappedData(mapFn, data)]

\* handleDataErrors that returns the errors beside the data it could map
handleDataErrorsBoth(mapFn, data, apolloErrors) ==
  LET userInputErrors == getErrorsFromData(data)
      errors ==
        IF Truthy(apolloErrors) \/ Truthy(userInputErrors)
        THEN ApolloError(userInputErrors, apolloErrors)
        ELSE Null
  IN IF Truthy(errors) /\ isDataEmpty(data)
     THEN [errors |-> errors]
     ELSE IF Truthy(errors)
          THEN [errors |-> errors, data |-> getMappedData(mapFn, data)]
          ELSE [data |-> getMappedData(mapFn, data)]

\* handleDataErrors that builds the error from the domain errors only
handleDataErrorsDomainOnly(mapFn, data, apolloErrors) ==
  LET userInputErrors == getErrorsFromData(data)
      errors ==
        IF Truthy(userInputErrors)
        THEN ApolloError(userInputErrors, apolloErrors)
        ELSE Null
  IN IF Truthy(errors) /\ isDataEmpty(data)
     THEN [errors |-> errors]
     ELSE [data |-> getMappedData(mapFn, data)]

handleDataErrors(mapFn, data, apolloErrors) ==
  LET userInputErrors == getErrorsFromData(data)
      errors ==
        IF Truthy(apolloErrors) \/ Truthy(userInputErrors)
        THEN ApolloError(userInputErrors, apolloErrors)
        ELSE Null
  IN IF Truthy(errors) /\ isDataEmpty(data)
     THEN [errors |-> errors]
     ELSE [data |-> getMappedData(mapFn, data)]

\* o.errors / o.data of an outcome (undefined when the key is missing)
OutErrors(o) == IF "errors" \in DOMAIN o THEN o.errors ELSE Undefined
OutData(o) == IF "data" \in DOMAIN o THEN o.data ELSE Undefined


\* ------------------------------------------------------------------------
\* Initial values
\* ------------------------------------------------------------------------
NoOutcome == [none |-> TRUE]
NetworkError == [tag |-> "NetworkError"]

SiIdle ==
  [pc |-> "idle", hasUpdate |-> FALSE, hasVariables |-> FALSE,
   threw |-> FALSE, data |-> Undefined, errors |-> Undefined, before |-> Null,
   wrote |-> <<>>, stored |-> 0, userUpdates |-> 0,
   ranUpdate |-> FALSE, steps |-> <<>>, normalized |-> FALSE,
   promise |-> "pending", value |-> Undefined]

FqIdle ==
  [pc |-> "idle", threw |-> FALSE, data |-> Undefined, errors |-> Undefined,
   normalized |-> FALSE, promise |-> "pending", value |-> Undefined]

WqIdle ==
  [state |-> "idle", hasOnUpdate |-> FALSE, hasOnError |-> FALSE,
   hasOnComplete |-> FALSE]

\* no operation was made on the Token Store yet
NoTokenOp == [op |-> "none"]
\* the callbacks that may be passed to attachAuthListener
Listeners == {"l1", "l2"}

ReqIdle == [pc |-> "idle", header |-> Null, attempts |-> 0]

RfIdle ==
  [pc |-> "idle", op |-> "refetch",
   withVariables |-> FALSE, cached |-> Undefined,
   callsBefore |-> 0, issuedAt |-> 0,
   threw |-> FALSE, data |-> Undefined, errors |-> Undefined,
   normalized |-> FALSE, promise |-> "pending", value |-> Undefined]

\* the state after construction, in an environment with or without the
\* credential-storage capability, with or without a persisted token
InitIn(capabilities, tokens) ==
  /\ normIn = <<>>
  /\ normOut = NoOutcome
  /\ tokenStore \in tokens
  /\ credentials = 0
  /\ hasPasswordCredential \in capabilities
  /\ si = SiIdle
  /\ nSignIn = 0
  /\ fq = FqIdle
  /\ wq = WqIdle
  /\ emitted = <<>>
  /\ calls = <<>>
  /\ handleDropped = FALSE
  /\ lastTokenOp = NoTokenOp
  /\ listeners = [l \in Listeners |-> "none"]
  /\ authEvents = <<>>
  /\ authCalls = <<>>
  /\ req = ReqIdle
  /\ sent = <<>>
  /\ rf = RfIdle
  /\ nRefetch = 0

Init == InitIn({FALSE}, {Str("T1")})
InitSignIn == InitIn(BOOLEAN, {Null, Str("T1")})

\* ------------------------------------------------------------------------
\* Token Store (./auth)
\* ------------------------------------------------------------------------
\* the value the Token Store holds after setAuthToken(token)
setAuthToken(token) == token
getAuthToken == tokenStore

\* ------------------------------------------------------------------------
\* Promise plumbing
\* ------------------------------------------------------------------------
Pending == [promise |-> "pending", value |-> Undefined]
\* resolve / reject settle a promise once; later calls have no effect
Settle(p, state, value) ==
  IF p.promise = "pending" THEN [promise |-> state, value |-> value] ELSE p

\* what the promise factory of firePromise can produce
Threw == [threw |-> TRUE, data |-> Undefined, errors |-> Undefined]
Result(data, errors) == [threw |-> FALSE, data |-> data, errors |-> errors]

\* firePromise that never rejects on a normalized error
firePromiseNoReject(mapFn, r) ==
  IF r.threw
  THEN [promise |-> "rejected", value |-> NetworkError, normalized |-> FALSE]
  ELSE [promise |-> "resolved",
        value |-> [data |-> OutData(handleDataErrors(mapFn, r.data, r.errors))],
        normalized |-> TRUE]

\* firePromise(promise, mapFn): the settled state of the returned promise
\* firePromise that resolves before it tests the normalized errors
firePromiseResolveFirst(mapFn, r) ==
  IF r.threw
  THEN [promise |-> "rejected", value |-> NetworkError, normalized |-> FALSE]
  ELSE LET errorHandledData == handleDataErrors(mapFn, r.data, r.errors)
           p1 == Settle(Pending, "resolved",
                        [data |-> OutData(errorHandledData)])
           p2 == IF Truthy(OutErrors(errorHandledData))
                 THEN Settle(p1, "rejected", OutErrors(errorHandledData))
                 ELSE p1
       IN [promise |-> p2.promise, value |-> p2.value, normalized |-> TRUE]

\* firePromise without the try / catch: a throwing factory is normalized
\* as an absent result
firePromiseNoCatch(mapFn, r) ==
  LET errorHandledData == handleDataErrors(mapFn, r.data, r.errors)
      p1 == IF Truthy(OutErrors(errorHandledData))
            THEN Settle(Pending, "rejected", OutErrors(errorHandledData))
            ELSE Pending
      p2 == Settle(p1, "resolved", [data |-> OutData(errorHandledData)])
  IN [promise |-> p2.promise, value |-> p2.value, normalized |-> TRUE]

\* (normalized: handleDataErrors was run for the call)
firePromise(mapFn, r) ==
  IF r.threw
  THEN LET p == Settle(Pending, "rejected", NetworkError)
       IN [promise |-> p.promise, value |-> p.value, normalized |-> FALSE]
  ELSE LET errorHandledData == handleDataErrors(mapFn, r.data, r.errors)
           p1 == IF Truthy(OutErrors(errorHandledData))
                 THEN Settle(Pending, "rejected", OutErrors(errorHandledData))
                 ELSE Pending
           p2 == Settle(p1, "resolved", [data |-> OutData(errorHandledData)])
       IN [promise |-> p2.promise, value |-> p2.value, normalized |-> TRUE]

\* ------------------------------------------------------------------------
\* fireQuery (setUserDefaultAddress: data => data!.addressSetDefault)
\* ------------------------------------------------------------------------
FireMapFn == "addressSetDefault"

FireQueryCall ==
  /\ fq.pc \in {"idle", "settled"}
  /\ fq' = [FqIdle EXCEPT !.pc = "inflight"]
  /\ UNCHANGED <<normVars, authVars, watchVars, extVars>>

\* the mutation returns a result: firePromise normalizes it and settles
FireQueryResult ==
  \E data \in AddressData, errors \in ApolloErrorLists :
    /\ fq.pc = "inflight"
    /\ LET p == firePromise(FireMapFn, Result(data, errors))
       IN fq' = [pc |-> "settled", threw |-> FALSE, data |-> data,
                 errors |-> errors, normalized |-> p.normalized,
                 promise |-> p.promise, value |-> p.value]
    /\ UNCHANGED <<normVars, authVars, watchVars, extVars>>

\* the mutation throws (network failure)
FireQueryThrow ==
  /\ fq.pc = "inflight"
  /\ LET p == firePromise(FireMapFn, Threw)
     IN fq' = [fq EXCEPT !.pc = "settled", !.threw = TRUE,
                         !.normalized = p.normalized,
                         !.promise = p.promise, !.value = p.value]
  /\ UNCHANGED <<normVars, authVars, watchVars, extVars>>

\* ------------------------------------------------------------------------
\* watchQuery (getProductDetails: data => data.product)
\* ------------------------------------------------------------------------
WatchMapFn == "product"
\* the data of a result emitted by the subscription
WatchData == ProductData \ {Undefined}
\* the errors of a result emitted by the subscription: the observable sets
\* errors only when the response carries GraphQL errors
WatchErrorLists == ApolloErrorLists \ {List(<<>>)}
\* onUpdate is a required option of the watchQuery callable
OnUpdateSupplied == {TRUE}

Call(cb, arg, src, em) == [cb |-> cb, arg |-> arg, src |-> src, em |-> em]

WatchQueryCall ==
  \E hasOnUpdate \in OnUpdateSupplied, hasOnError \in BOOLEAN,
     hasOnComplete \in BOOLEAN :
    /\ wq.state = "idle"
    /\ wq' = [state |-> "active", hasOnUpdate |-> hasOnUpdate,
              hasOnError |-> hasOnError, hasOnComplete |-> hasOnComplete]
    /\ UNCHANGED <<emitted, calls, handleDropped, normVars, authVars, fireVars, extVars>>

\* a next-handler that delivers a successful result twice
NextCallsTwice(w, data, apolloErrors, em) ==
  LET errorHandledData == handleDataErrors(WatchMapFn, data, apolloErrors)
  IN IF w.hasOnUpdate
     THEN IF Truthy(OutErrors(errorHandledData))
          THEN IF w.hasOnError
               THEN <<Call("onError", OutErrors(errorHandledData), "next", em)>>
               ELSE <<>>
          ELSE <<Call("onUpdate", OutData(errorHandledData), "next", em),
                 Call("onUpdate", OutData(errorHandledData), "next", em)>> \o
               (IF w.hasOnComplete
                THEN <<Call("onComplete", Undefined, "next", em)>>
                ELSE <<>>)
     ELSE <<>>

\* a next-handler without the else: onUpdate is invoked after onError too
NextCallsFallThrough(w, data, apolloErrors, em) ==
  LET errorHandledData == handleDataErrors(WatchMapFn, data, apolloErrors)
  IN IF w.hasOnUpdate
     THEN (IF Truthy(OutErrors(errorHandledData)) /\ w.hasOnError
           THEN <<Call("onError", OutErrors(errorHandledData), "next", em)>>
           ELSE <<>>) \o
          <<Call("onUpdate", OutData(errorHandledData), "next", em)>> \o
          (IF w.hasOnComplete
           THEN <<Call("onComplete", Undefined, "next", em)>>
           ELSE <<>>)
     ELSE <<>>

\* the callbacks the next-handler of the subscription invokes for a result
NextCalls(w, data, apolloErrors, em) ==
  LET errorHandledData == handleDataErrors(WatchMapFn, data, apolloErrors)
  IN IF w.hasOnUpdate
     THEN IF Truthy(OutErrors(errorHandledData))
          THEN IF w.hasOnError
               THEN <<Call("onError", OutErrors(errorHandledData), "next", em)>>
               ELSE <<>>
          ELSE <<Call("onUpdate", OutData(errorHandledData), "next", em)>> \o
               (IF w.hasOnComplete
                THEN <<Call("onComplete", Undefined, "next", em)>>
                ELSE <<>>)
     ELSE <<>>

\* the subscription emits a result
SubscriptionNext ==
  \E data \in WatchData, apolloErrors \in WatchErrorLists :
    /\ wq.state = "active"
    /\ Len(emitted) < MaxEmit
    /\ emitted' = Append(emitted, Result(data, apolloErrors))
    /\ calls' = calls \o NextCalls(wq, data, apolloErrors, Len(emitted) + 1)
    /\ UNCHANGED <<wq, handleDropped, normVars, authVars, fireVars, extVars>>

\* the callbacks the error-handler of the subscription invokes
ErrorCalls(w, error, em) ==
  IF w.hasOnError THEN <<Call("onError", error, "error", em)>> ELSE <<>>

\* the stream fails: the subscription is closed by the observable
SubscriptionError ==
  /\ wq.state = "active"
  /\ calls' = calls \o ErrorCalls(wq, NetworkError, Len(emitted))
  /\ wq' = [wq EXCEPT !.state = "closed"]
  /\ UNCHANGED <<emitted, handleDropped, normVars, authVars, fireVars, extVars>>

\* the caller drops the handle { refetch, setOptions } (unmount); the
\* Subscription returned by observable.subscribe is not kept by watchQuery
DropHandle ==
  /\ wq.state # "idle"
  /\ ~handleDropped
  /\ handleDropped' = TRUE
  /\ UNCHANGED <<wq, emitted, calls, normVars, authVars, fireVars, extVars>>

Next ==
  \/ FireQueryCall
  \/ FireQueryResult
  \/ FireQueryThrow
  \/ WatchQueryCall
  \/ SubscriptionNext
  \/ SubscriptionError
  \/ DropHandle

Spec == Init /\ [][Next]_vars

\* ------------------------------------------------------------------------
\* refetch of the handle returned by the watchQuery callable
\* ------------------------------------------------------------------------
\* what observable.currentResult().data can be for the new variables
CachedData == ProductData

\* a refetch that surfaces the cached projection without testing it
RefetchCallsUnguarded(withVariables, cached, n) ==
  IF withVariables
  THEN <<Call("onUpdate",
              OutData(handleDataErrors(WatchMapFn, cached, Undefined)),
              "refetch", n)>>
  ELSE <<>>

\* the callbacks refetch(variables) invokes before it issues the request
RefetchCalls(withVariables, cached, n) ==
  IF withVariables
  THEN LET errorHandledData == handleDataErrors(WatchMapFn, cached, Undefined)
       IN IF Truthy(OutData(errorHandledData))
          THEN <<Call("onUpdate", OutData(errorHandledData), "refetch", n)>>
          ELSE <<>>
  ELSE <<>>

\* refetch(variables?): the cached result is surfaced, then firePromise
\* issues observable.refetch
RefetchCall ==
  \E withVariables \in BOOLEAN, cached \in CachedData :
    /\ wq.state # "idle"
    /\ ~handleDropped
    /\ rf.pc \in {"idle", "settled"}
    /\ nRefetch < MaxRefetch
    /\ ~withVariables => cached = Undefined
    /\ nRefetch' = nRefetch + 1
    /\ calls' = calls \o RefetchCalls(withVariables, cached, nRefetch + 1)
    /\ rf' = [RfIdle EXCEPT !.pc = "inflight",
                            !.withVariables = withVariables,
                            !.cached = cached,
                            !.callsBefore = Len(calls),
                            !.issuedAt = Len(calls')]
    /\ UNCHANGED <<wq, emitted, handleDropped, normVars, authVars, fireVars,
                   listenerVars, linkVars>>

\* observable.refetch returns the network result: firePromise settles
RefetchResult ==
  \E data \in ProductData, errors \in ApolloErrorLists :
    /\ rf.pc = "inflight"
    /\ LET p == firePromise(WatchMapFn, Result(data, errors))
       IN rf' = [rf EXCEPT !.pc = "settled", !.data = data, !.errors = errors,
                           !.normalized = p.normalized,
                           !.promise = p.promise, !.value = p.value]
    /\ UNCHANGED <<nRefetch, watchVars, normVars, authVars, fireVars,
                   listenerVars, linkVars>>

\* observable.refetch rejects (network failure)
RefetchThrow ==
  /\ rf.pc = "inflight"
  /\ LET p == firePromise(WatchMapFn, Threw)
     IN rf' = [rf EXCEPT !.pc = "settled", !.threw = TRUE,
                         !.normalized = p.normalized,
                         !.promise = p.promise, !.value = p.value]
  /\ UNCHANGED <<nRefetch, watchVars, normVars, authVars, fireVars,
                 listenerVars, linkVars>>

\* setOptions(options?) of the handle: firePromise issues
\* observable.setOptions; no callback is invoked before the request
SetOptionsCall ==
  /\ wq.state # "idle"
  /\ ~handleDropped
  /\ rf.pc \in {"idle", "settled"}
  /\ rf' = [RfIdle EXCEPT !.pc = "inflight", !.op = "setOptions",
                          !.callsBefore = Len(calls),
                          !.issuedAt = Len(calls)]
  /\ UNCHANGED <<nRefetch, watchVars, normVars, authVars, fireVars,
                 listenerVars, linkVars>>

NextRefetch ==
  \/ WatchQueryCall
  \/ RefetchCall
  \/ RefetchResult
  \/ RefetchThrow

SpecRefetch == Init /\ [][NextRefetch]_vars

\* ------------------------------------------------------------------------
\* signIn (MUTATIONS.TokenAuth: data => data!.tokenCreate)
\* ------------------------------------------------------------------------
SignInMapFn == "tokenCreate"

SignInCall ==
  \E hasUpdate \in BOOLEAN, hasVariables \in BOOLEAN :
    /\ si.pc \in {"idle", "settled"}
    /\ nSignIn < MaxSignIn
    /\ si' = [SiIdle EXCEPT !.pc = "inflight", !.hasUpdate = hasUpdate,
                            !.hasVariables = hasVariables,
                            !.before = tokenStore]
    /\ nSignIn' = nSignIn + 1
    /\ UNCHANGED <<tokenStore, lastTokenOp, credentials, hasPasswordCredential,
                   normVars, fireVars, watchVars, extVars>>

\* an update option that stores the token only when there are errors
StoresTokenOnErrors(data, errors) ==
  LET handledData == handleDataErrors(SignInMapFn, data, errors)
  IN Truthy(OutErrors(handledData)) /\ Truthy(OutData(handledData))

\* the update option signIn passes to the mutation: does it store the token
StoresToken(data, errors) ==
  LET handledData == handleDataErrors(SignInMapFn, data, errors)
  IN ~Truthy(OutErrors(handledData)) /\ Truthy(OutData(handledData))

\* the token the update option passes to setAuthToken
StoredToken(data, errors) ==
  Field(OutData(handleDataErrors(SignInMapFn, data, errors)), "token")

\* the number of occurrences of step in a sequence of steps
RECURSIVE CountStep(_, _)
CountStep(steps, step) ==
  IF steps = <<>> THEN 0
  ELSE (IF Head(steps) = step THEN 1 ELSE 0) + CountStep(Tail(steps), step)

\* an update option that calls the update hook of the caller only after
\* it stored the token
UpdateStepsOnlyOnSuccess(data, errors, canStoreCredentials, hasUpdate) ==
  IF StoresToken(data, errors)
  THEN <<"setAuthToken">> \o
       (IF canStoreCredentials THEN <<"credentials.store">> ELSE <<>>) \o
       (IF hasUpdate THEN <<"options.update">> ELSE <<>>)
  ELSE <<>>

\* the calls the update option makes, in order: store the token, store the
\* platform credentials, then the update hook of the caller
UpdateSteps(data, errors, canStoreCredentials, hasUpdate) ==
  (IF StoresToken(data, errors)
   THEN <<"setAuthToken">> \o
        (IF canStoreCredentials THEN <<"credentials.store">> ELSE <<>>)
   ELSE <<>>) \o
  (IF hasUpdate THEN <<"options.update">> ELSE <<>>)

\* the mutation returns a result; the client runs the update option with it
\* (the client may skip update for a result that carries GraphQL errors)
SignInResult ==
  \E data \in TokenAuthData, errors \in ApolloErrorLists,
     runsUpdate \in BOOLEAN :
    /\ si.pc = "inflight"
    /\ runsUpdate \/ (errors.tag = "list" /\ Len(errors.items) > 0)
    /\ LET steps == IF runsUpdate
                    THEN UpdateSteps(data, errors,
                                     hasPasswordCredential /\ si.hasVariables,
                                     si.hasUpdate)
                    ELSE <<>>
           stores == CountStep(steps, "setAuthToken") > 0
       IN /\ tokenStore' = IF stores
                           THEN setAuthToken(StoredToken(data, errors))
                           ELSE tokenStore
          /\ lastTokenOp' = IF stores
                            THEN [op |-> "set",
                                  arg |-> StoredToken(data, errors)]
                            ELSE lastTokenOp
          /\ credentials' = credentials + CountStep(steps, "credentials.store")
          /\ si' = [si EXCEPT
                      !.pc = "updated", !.data = data, !.errors = errors,
                      !.ranUpdate = runsUpdate, !.steps = steps,
                      !.wrote = IF stores
                                THEN Append(@, StoredToken(data, errors))
                                ELSE @,
                      !.stored = @ + CountStep(steps, "credentials.store"),
                      !.userUpdates = @ + CountStep(steps, "options.update")]
    /\ UNCHANGED <<hasPasswordCredential, nSignIn,
                   normVars, fireVars, watchVars, extVars>>

\* the awaited fireQuery promise settles and signIn resolves or rejects
SignInSettle ==
  /\ si.pc = "updated"
  /\ LET p == firePromise(SignInMapFn, Result(si.data, si.errors))
     IN si' = [si EXCEPT !.pc = "settled", !.normalized = p.normalized,
                         !.promise = p.promise, !.value = p.value]
  /\ UNCHANGED <<tokenStore, lastTokenOp, credentials, hasPasswordCredential, nSignIn,
                 normVars, fireVars, watchVars, extVars>>

\* the mutation throws (network failure): update is not run
SignInThrow ==
  /\ si.pc = "inflight"
  /\ LET p == firePromise(SignInMapFn, Threw)
     IN si' = [si EXCEPT !.pc = "settled", !.threw = TRUE,
                         !.normalized = p.normalized,
                         !.promise = p.promise, !.value = p.value]
  /\ UNCHANGED <<tokenStore, lastTokenOp, credentials, hasPasswordCredential, nSignIn,
                 normVars, fireVars, watchVars, extVars>>

NextSignIn ==
  \/ SignInCall
  \/ SignInResult
  \/ SignInSettle
  \/ SignInThrow

SpecSignIn == InitSignIn /\ [][NextSignIn]_vars

\* ------------------------------------------------------------------------
\* Auth events: attachAuthListener, isLoggedIn, token invalidation
\* ------------------------------------------------------------------------
\* isLoggedIn that only tests the token against undefined
isLoggedInNotUndefined(token) == token # Undefined

\* isLoggedIn() when the Token Store holds token: !!getAuthToken()
isLoggedIn(token) == Truthy(token)

\* an event handler that reports a fixed login state
eventHandlerConstant(token) == TRUE

\* the argument the event handler of attachAuthListener gives to callback
\* when the event fires while the Token Store holds token
eventHandler(token) == isLoggedIn(token)

\* the order in which the registered handlers are run
ListenerOrder == <<"l1", "l2">>

\* the listeners registered on the "auth" event
Registered(ls) == {l \in Listeners : ls[l] = "attached"}

RECURSIVE HandlerCalls(_, _, _, _)
HandlerCalls(active, token, ev, i) ==
  IF i > Len(ListenerOrder) THEN <<>>
  ELSE (IF ListenerOrder[i] \in active
        THEN <<[listener |-> ListenerOrder[i],
                arg |-> eventHandler(token), ev |-> ev]>>
        ELSE <<>>) \o HandlerCalls(active, token, ev, i + 1)

\* removeEventListener that does not find the handler: it keeps being run
ListenerCallsKeepRemoved(ls, token, ev) ==
  HandlerCalls({l \in Listeners : ls[l] # "none"}, token, ev, 1)

\* the callback invocations made when the "auth" event number ev fires
ListenerCalls(ls, token, ev) == HandlerCalls(Registered(ls), token, ev, 1)

\* attachAuthListener(callback): addEventListener("auth", eventHandler)
AttachAuthListener ==
  \E l \in Listeners :
    /\ listeners[l] = "none"
    /\ listeners' = [listeners EXCEPT ![l] = "attached"]
    /\ UNCHANGED <<authEvents, authCalls, normVars, authVars, fireVars,
                   watchVars, linkVars, refetchVars>>

\* an unregister function that also signs the user out
UnregisterSignsOut ==
  \E l \in Listeners :
    /\ listeners[l] = "attached"
    /\ listeners' = [listeners EXCEPT ![l] = "removed"]
    /\ tokenStore' = Null
    /\ lastTokenOp' = [op |-> "clear"]
    /\ UNCHANGED <<authEvents, authCalls, normVars, credentials,
                   hasPasswordCredential, si, nSignIn, fireVars,
                   watchVars, linkVars, refetchVars>>

\* the function returned by attachAuthListener: removeEventListener
Unregister ==
  \E l \in Listeners :
    /\ listeners[l] = "attached"
    /\ listeners' = [listeners EXCEPT ![l] = "removed"]
    /\ UNCHANGED <<authEvents, authCalls, normVars, authVars, fireVars,
                   watchVars, linkVars, refetchVars>>

\* the "auth" event fires while the Token Store holds token: the event is
\* dispatched synchronously to the handlers registered at that moment
FireAuthEvent(cause, before, token) ==
  /\ Len(authEvents) < MaxEvents
  /\ authEvents' = Append(authEvents,
                          [cause |-> cause, before |-> before,
                           token |-> token,
                           registered |-> Registered(listeners)])
  /\ authCalls' = authCalls \o
                  ListenerCalls(listeners, token, Len(authEvents) + 1)

\* a response carrying the invalid-credential signal is processed by the
\* invalidation link: the token is cleared, then the "auth" event is raised
Invalidate ==
  /\ tokenStore' = Null
  /\ lastTokenOp' = [op |-> "clear"]
  /\ FireAuthEvent("invalid", tokenStore, tokenStore')

InvalidTokenResponse ==
  /\ Invalidate
  /\ UNCHANGED <<listeners, credentials, hasPasswordCredential, si, nSignIn,
                 normVars, fireVars, watchVars, linkVars, refetchVars>>

\* another publisher raises the process-wide "auth" event
DispatchAuthEvent ==
  /\ FireAuthEvent("other", tokenStore, tokenStore)
  /\ UNCHANGED <<listeners, normVars, authVars, fireVars, watchVars,
                 linkVars, refetchVars>>

\* Token Store set(token)
SetToken ==
  \E t \in Tokens :
    /\ tokenStore' = setAuthToken(Str(t))
    /\ lastTokenOp' = [op |-> "set", arg |-> Str(t)]
    /\ UNCHANGED <<credentials, hasPasswordCredential, si, nSignIn,
                   normVars, fireVars, watchVars, extVars>>

\* Token Store clear() (explicit sign-out)
ClearToken ==
  /\ tokenStore' = Null
  /\ lastTokenOp' = [op |-> "clear"]
  /\ UNCHANGED <<credentials, hasPasswordCredential, si, nSignIn,
                 normVars, fireVars, watchVars, extVars>>

NextAuth ==
  \/ AttachAuthListener
  \/ Unregister
  \/ InvalidTokenResponse
  \/ DispatchAuthEvent
  \/ SetToken
  \/ ClearToken

SpecAuth == Init /\ [][NextAuth]_vars

\* the Token Store under every operation that writes it: set, clear, signIn
\* and the invalidation of the token
NextToken ==
  \/ SetToken
  \/ ClearToken
  \/ InvalidTokenResponse
  \/ SignInCall
  \/ SignInResult
  \/ SignInSettle
  \/ SignInThrow

SpecToken == Init /\ [][NextToken]_vars

\* ------------------------------------------------------------------------
\* The operations of the dispatch layer other than signIn, interleaved
\* ------------------------------------------------------------------------
\* the results drawn for the interleaved operations: a partial success for
\* the mutation, a product for the watched query and its refetch
FrameFireData ==
  {Obj([addressSetDefault |->
          Obj([user |-> Null, errors |-> List(<<DomainErr>>)])])}
FrameWatchData == {Obj([product |-> Obj([name |-> Str("X")])])}
\* the callback passed to attachAuthListener
FrameListeners == {"l1"}

\* the inputs of the interleaved operations are among the drawn ones, the
\* caller of watchQuery supplies every callback, and each kind of repeated
\* operation is made at most MaxFrame times
FrameInputs ==
  /\ fq.data \in FrameFireData \cup {Undefined}
  /\ fq.errors = Undefined
  /\ wq.state # "idle" => (wq.hasOnError /\ wq.hasOnComplete)
  /\ \A i \in 1..Len(emitted) :
       emitted[i].data \in FrameWatchData /\ emitted[i].errors = Undefined
  /\ rf.cached \in FrameWatchData \cup {Undefined}
  /\ rf.data \in FrameWatchData \cup {Undefined}
  /\ rf.errors = Undefined
  /\ \A l \in Listeners \ FrameListeners : listeners[l] = "none"
  /\ Len(emitted) <= MaxFrame
  /\ nRefetch <= MaxFrame
  /\ Len(authEvents) <= MaxFrame

FrameFireQueryResult == FireQueryResult /\ FrameInputs'
FrameSubscriptionNext == SubscriptionNext /\ FrameInputs'
FrameRefetchCall == RefetchCall /\ FrameInputs'
FrameRefetchResult == RefetchResult /\ FrameInputs'
FrameDispatchAuthEvent == DispatchAuthEvent /\ FrameInputs'
FrameWatchQueryCall == WatchQueryCall /\ FrameInputs'
FrameAttachAuthListener == AttachAuthListener /\ FrameInputs'

NextFrame ==
  \/ FireQueryCall
  \/ FrameFireQueryResult
  \/ FireQueryThrow
  \/ FrameWatchQueryCall
  \/ FrameSubscriptionNext
  \/ SubscriptionError
  \/ FrameRefetchCall
  \/ SetOptionsCall
  \/ FrameRefetchResult
  \/ RefetchThrow
  \/ FrameAttachAuthListener
  \/ Unregister
  \/ FrameDispatchAuthEvent

SpecFrame == Init /\ [][NextFrame]_vars

\* ------------------------------------------------------------------------
\* The link chain of the client: getLink
\* ------------------------------------------------------------------------
\* ApolloLink.from([invalidLink, authLink, new RetryLink(), new BatchHttpLink])
LinkOrder == <<"invalidLink", "authLink", "RetryLink", "BatchHttpLink">>

\* the position of a link in the chain
LinkIndex(link) == CHOOSE i \in 1..Len(LinkOrder) : LinkOrder[i] = link

\* the links an attempt re-forwarded by RetryLink passes through: RetryLink
\* forwards the operation to the links after it
LinksAfterRetry ==
  SubSeq(LinkOrder, LinkIndex("RetryLink") + 1, Len(LinkOrder))

\* the credential authLink attaches when the Token Store holds token
Credential(token) == IF Truthy(token) THEN token ELSE Null

\* the credential an operation carries after it passed the links, in order
RECURSIVE RunLinks(_, _, _)
RunLinks(links, header, token) ==
  IF links = <<>> THEN header
  ELSE RunLinks(Tail(links),
                IF Head(links) = "authLink" THEN Credential(token)
                ELSE header,
                token)

\* an operation is executed: it passes the whole chain and reaches the network
StartRequest ==
  /\ req.pc = "idle"
  /\ Len(sent) < MaxSent
  /\ LET header == RunLinks(LinkOrder, Null, tokenStore)
     IN /\ req' = [pc |-> "network", header |-> header, attempts |-> 1]
        /\ sent' = Append(sent, [carried |-> header, store |-> tokenStore,
                                 attempt |-> 1])
  /\ UNCHANGED <<normVars, authVars, fireVars, watchVars, listenerVars,
                 refetchVars>>

\* the attempt fails on the network and RetryLink forwards the operation again
RetryAttempt ==
  /\ req.pc = "network"
  /\ req.attempts < MaxAttempts
  /\ Len(sent) < MaxSent
  /\ LET header == RunLinks(LinksAfterRetry, req.header, tokenStore)
     IN /\ req' = [req EXCEPT !.header = header, !.attempts = @ + 1]
        /\ sent' = Append(sent, [carried |-> header, store |-> tokenStore,
                                 attempt |-> req.attempts + 1])
  /\ UNCHANGED <<normVars, authVars, fireVars, watchVars, listenerVars,
                 refetchVars>>

\* the response arrives, or RetryLink gives up: the operation is over
RequestDone ==
  /\ req.pc = "network"
  /\ req' = ReqIdle
  /\ UNCHANGED <<sent, normVars, authVars, fireVars, watchVars, listenerVars,
                 refetchVars>>

NextLink ==
  \/ StartRequest
  \/ RetryAttempt
  \/ RequestDone
  \/ SetToken
  \/ ClearToken

SpecLink == Init /\ [][NextLink]_vars

\* ------------------------------------------------------------------------
\* Requests in flight while signIn replaces the token
\* ------------------------------------------------------------------------
\* the response to the request in flight carries the invalid-credential
\* signal: the invalidation link clears the token and raises the event
InvalidCredentialResponse ==
  /\ req.pc = "network"
  /\ req' = ReqIdle
  /\ Invalidate
  /\ UNCHANGED <<sent, listeners, credentials, hasPasswordCredential, si,
                 nSignIn, normVars, fireVars, watchVars, refetchVars>>

\* the sign-in results drawn while requests are in flight: a success with
\* either token
StaleSignInData ==
  {Obj([tokenCreate |-> Obj([token |-> Str(t), errors |-> Null])]) :
     t \in Tokens}

\* the sign-in results are among the drawn ones, one callback is passed to
\* attachAuthListener, and each kind of operation is made at most MaxStale
\* times
StaleInputs ==
  /\ si.data \in StaleSignInData \cup {Undefined}
  /\ si.errors = Undefined
  /\ ~si.hasUpdate
  /\ (si.pc # "idle" => si.hasVariables)
  /\ \A l \in Listeners \ FrameListeners : listeners[l] = "none"
  /\ Len(sent) <= MaxStale
  /\ nSignIn <= MaxStale
  /\ Len(authEvents) <= MaxStale

StaleStartRequest == StartRequest /\ StaleInputs'
StaleInvalidCredentialResponse == InvalidCredentialResponse /\ StaleInputs'
StaleAttachAuthListener == AttachAuthListener /\ StaleInputs'
StaleSignInCall == SignInCall /\ StaleInputs'
StaleSignInResult == SignInResult /\ StaleInputs'

NextStale ==
  \/ StaleStartRequest
  \/ RequestDone
  \/ StaleInvalidCredentialResponse
  \/ StaleAttachAuthListener
  \/ Unregister
  \/ StaleSignInCall
  \/ StaleSignInResult
  \/ SignInSettle
  \/ SignInThrow

SpecStale == Init /\ [][NextStale]_vars

\* ------------------------------------------------------------------------
\* The normalizer applied to every raw result
\* ------------------------------------------------------------------------
NormData == TokenAuthData \cup ProductData \cup AddressData \cup CheckoutData

Normalize ==
  \E mapFn \in MapFns, data \in NormData, apolloErrors \in ApolloErrorLists :
    /\ normIn = <<>>
    /\ normIn' = <<mapFn, data, apolloErrors>>
    /\ normOut' = handleDataErrors(mapFn, data, apolloErrors)
    /\ UNCHANGED <<authVars, fireVars, watchVars, extVars>>

NextNorm == Normalize
SpecNorm == InitSignIn /\ [][NextNorm]_vars

\* ------------------------------------------------------------------------
\* Properties
\* ------------------------------------------------------------------------
\* a transport / domain error list that is present and not empty
NonEmptyErrors(v) == v.tag = "list" /\ Len(v.items) > 0
\* domain errors are found in data
HasDomainErrors(data) == Truthy(getErrorsFromData(data))
\* the outcome has key k
HasKey(o, k) == k \in DOMAIN o

NormCalled == normIn # <<>>
NormMapFn == normIn[1]
NormDataIn == normIn[2]
NormErrorsIn == normIn[3]

C1_Pre ==
  /\ NormCalled
  /\ isDataEmpty(NormDataIn)
  /\ (NonEmptyErrors(NormErrorsIn) \/ HasDomainErrors(NormDataIn))

\* C1: when data is null or every direct child of data is null, and the
\* transport-error list is non-empty or domain errors are found,
\* handleDataErrors returns an outcome with errors and without data.
C1_EmptyDataYieldsErrors ==
  C1_Pre => (HasKey(normOut, "errors") /\ ~HasKey(normOut, "data"))

C1_Witness ==
  /\ C1_Pre
  /\ HasKey(normOut, "errors")
  /\ normOut.errors.graphQLErrors = List(<<GraphQLErr>>)
  /\ NormDataIn.tag = "obj"

\* C2: with no transport errors (absent or an empty list) and no domain
\* errors, handleDataErrors returns { data: projected } and never { errors },
\* whether or not data is empty.
C2_PassThrough ==
  (/\ NormCalled
   /\ ~NonEmptyErrors(NormErrorsIn)
   /\ ~HasDomainErrors(NormDataIn))
  => normOut = [data |-> getMappedData(NormMapFn, NormDataIn)]

\* the callbacks of kind cbs invoked by the next-handler for emission i
NextCallsFor(i, cbs) ==
  {k \in 1..Len(calls) :
     calls[k].src = "next" /\ calls[k].em = i /\ calls[k].cb \in cbs}

\* the outcome the normalizer gives for emission i
OutcomeOf(i) ==
  handleDataErrors(WatchMapFn, emitted[i].data, emitted[i].errors)

\* C3 as stated: a non-empty transport-error list yields an error outcome
\* for the caller (rejected promise, onError), whatever the data.
C3_TransportErrorAlwaysError ==
  /\ (fq.pc = "settled" /\ NonEmptyErrors(fq.errors))
       => fq.promise = "rejected"
  /\ \A i \in 1..Len(emitted) :
       NonEmptyErrors(emitted[i].errors)
         => /\ NextCallsFor(i, {"onUpdate"}) = {}
            /\ (wq.hasOnError => NextCallsFor(i, {"onError"}) # {})

\* C3 (amended): a non-empty transport-error list together with empty data
\* yields an error outcome: the fireQuery promise is rejected with the
\* unified error, and a watched query never calls onUpdate for that result
\* and calls onError once when onError was supplied.
C3_TransportErrorEmptyData ==
  /\ (fq.pc = "settled" /\ NonEmptyErrors(fq.errors) /\ isDataEmpty(fq.data))
       => /\ fq.promise = "rejected"
          /\ fq.value = ApolloError(getErrorsFromData(fq.data), fq.errors)
  /\ \A i \in 1..Len(emitted) :
       (NonEmptyErrors(emitted[i].errors) /\ isDataEmpty(emitted[i].data))
         => /\ NextCallsFor(i, {"onUpdate"}) = {}
            /\ (wq.hasOnError
                  => /\ Cardinality(NextCallsFor(i, {"onError"})) = 1
                     /\ \A k \in NextCallsFor(i, {"onError"}) :
                          calls[k].arg = ApolloError(
                            getErrorsFromData(emitted[i].data),
                            emitted[i].errors))

C3_Witness ==
  /\ fq.pc = "settled"
  /\ NonEmptyErrors(fq.errors)
  /\ isDataEmpty(fq.data)
  /\ fq.promise = "rejected"
  /\ \E i \in 1..Len(emitted) :
       /\ NonEmptyErrors(emitted[i].errors)
       /\ isDataEmpty(emitted[i].data)
       /\ NextCallsFor(i, {"onError"}) # {}

\* the tokenCreate payload of the signIn result, or null
SignInPayload ==
  IF si.data.tag = "obj" THEN si.data.fields.tokenCreate ELSE Null

\* sign-in failure: tokenCreate has token = null and a non-empty errors list
IsSignInFailure ==
  /\ si.pc \in {"updated", "settled"}
  /\ ~si.threw
  /\ si.errors = Undefined
  /\ SignInPayload.tag = "obj"
  /\ SignInPayload.fields.token = Null
  /\ NonEmptyErrors(SignInPayload.fields.errors)

\* sign-in success: tokenCreate has a token and no errors, and the result
\* carries no transport error
IsSignInSuccess ==
  /\ si.pc \in {"updated", "settled"}
  /\ ~si.threw
  /\ ~NonEmptyErrors(si.errors)
  /\ SignInPayload.tag = "obj"
  /\ SignInPayload.fields.token # Null
  /\ ~NonEmptyErrors(SignInPayload.fields.errors)

\* C4: on a sign-in failure signIn does not write the Token Store (its value
\* stays what it was before the call) and the signIn promise is rejected.
C4_SignInFailureLeavesToken ==
  IsSignInFailure
    => /\ si.wrote = <<>>
       /\ tokenStore = si.before
       /\ (si.pc = "settled" => si.promise = "rejected")

\* C5: a sign-in whose result carries a transport error, a thrown network
\* failure or a domain error ends with the signIn promise rejected; for a
\* domain error the rejection value is a unified error whose extraInfo holds
\* the raw domain errors.
C5_SignInRejectsOnAnyError ==
  (/\ si.pc = "settled"
   /\ (si.threw \/ NonEmptyErrors(si.errors) \/ HasDomainErrors(si.data)))
  => /\ si.promise = "rejected"
     /\ (HasDomainErrors(si.data)
           => /\ si.value.tag = "ApolloError"
              /\ si.value.extraInfo = getErrorsFromData(si.data))

\* C6: on a sign-in success with token t, the Token Store holds t from the
\* update step on, that is before the promise settles, and the promise
\* resolves with { data: <the tokenCreate payload> }.
C6_SignInSuccess ==
  IsSignInSuccess
    => /\ si.wrote = <<SignInPayload.fields.token>>
       /\ tokenStore = SignInPayload.fields.token
       /\ (si.pc = "updated" => si.promise = "pending")
       /\ (si.pc = "settled"
             => /\ si.promise = "resolved"
                /\ si.value = [data |-> SignInPayload])

C6_Witness ==
  /\ IsSignInSuccess
  /\ si.pc = "settled"
  /\ si.promise = "resolved"
  /\ si.before # tokenStore
  /\ tokenStore = Str("T2")

\* number of callbacks of kind cbs the next-handler invoked for emission i
Count(i, cbs) == Cardinality(NextCallsFor(i, cbs))

\* emission i is normalized to an error outcome
IsErrorOutcome(i) == Truthy(OutErrors(OutcomeOf(i)))

\* C7 as stated: every emitted result causes exactly one of onUpdate or
\* onError to be invoked, whatever callbacks the caller supplied.
C7_ExactlyOneCallback ==
  \A i \in 1..Len(emitted) : Count(i, {"onUpdate", "onError"}) = 1

\* C7 (amended): every emitted result causes at most one of onUpdate or
\* onError to be invoked: a success outcome invokes onUpdate exactly once
\* and not onError; an error outcome never invokes onUpdate and invokes
\* onError exactly once when the caller supplied onError, and nothing when
\* the caller did not.
C7_AtMostOneCallback ==
  \A i \in 1..Len(emitted) :
    /\ Count(i, {"onUpdate", "onError"}) <= 1
    /\ ~IsErrorOutcome(i)
         => (Count(i, {"onUpdate"}) = 1 /\ Count(i, {"onError"}) = 0)
    /\ IsErrorOutcome(i)
         => /\ Count(i, {"onUpdate"}) = 0
            /\ Count(i, {"onError"}) = (IF wq.hasOnError THEN 1 ELSE 0)

C7_Witness ==
  /\ Len(emitted) = 2
  /\ wq.hasOnError
  /\ IsErrorOutcome(1)
  /\ ~IsErrorOutcome(2)
  /\ Count(1, {"onError"}) = 1
  /\ Count(2, {"onUpdate"}) = 1

\* all invocations of the callbacks cbs made for the subscription
AllCalls(cbs) == {k \in 1..Len(calls) : calls[k].cb \in cbs}

\* C8: onComplete is invoked exactly once over the lifetime of the
\* subscription, after the first successful onUpdate: never before an
\* onUpdate, and once however many onUpdate calls follow.
C8_OnCompleteOnce ==
  /\ AllCalls({"onUpdate"}) = {} => AllCalls({"onComplete"}) = {}
  /\ (AllCalls({"onUpdate"}) # {} /\ wq.hasOnComplete)
       => Cardinality(AllCalls({"onComplete"})) = 1

IsDelivery(c) == c.src = "next" /\ c.cb \in {"onUpdate", "onError"}
\* the onUpdate / onError invocations made for emitted results, in order
Deliveries == SelectSeq(calls, IsDelivery)

\* C9 as stated: the onUpdate / onError invocations are the emissions, in
\* the same order, one invocation per emission.
C9_OneDeliveryPerEmission ==
  /\ Len(Deliveries) = Len(emitted)
  /\ \A k \in 1..Len(Deliveries) : Deliveries[k].em = k

\* the emissions the next-handler invokes a callback for
Delivered ==
  {i \in 1..Len(emitted) : ~IsErrorOutcome(i) \/ wq.hasOnError}

\* C9 (amended): the onUpdate / onError invocations follow the order of the
\* emissions, with at most one invocation per emission: none is reordered,
\* merged or delivered twice, each carries the normalized outcome of its own
\* emission, and the only emissions without an invocation are error
\* outcomes of a subscription whose caller supplied no onError.
C9_DeliveryInOrder ==
  /\ \A k \in 1..Len(Deliveries) :
       /\ Deliveries[k].em \in Delivered
       /\ \A j \in 1..Len(Deliveries) :
            j < k => Deliveries[j].em < Deliveries[k].em
       /\ Deliveries[k].arg =
            (IF IsErrorOutcome(Deliveries[k].em)
             THEN OutErrors(OutcomeOf(Deliveries[k].em))
             ELSE OutData(OutcomeOf(Deliveries[k].em)))
  /\ Len(Deliveries) = Cardinality(Delivered)

C9_Witness ==
  /\ Len(emitted) = 2
  /\ Len(Deliveries) = 2
  /\ emitted[1].data # emitted[2].data
  /\ Deliveries[1].cb = "onUpdate"
  /\ Deliveries[2].cb = "onUpdate"
  /\ Deliveries[1].arg = Obj([name |-> Str("X")])
  /\ Deliveries[2].arg = Obj([name |-> Str("Y")])

\* C10: once the caller has dropped the handle of the watched query, no
\* onUpdate, onError or onComplete invocation happens for a later emission.
C10_NoDeliveryAfterDrop ==
  [][(handleDropped /\ emitted' # emitted) => calls' = calls]_vars

\* the cached result of the refetch has a projection to surface
CachedPresent ==
  /\ rf.withVariables
  /\ rf.cached.tag = "obj"
  /\ Truthy(Field(rf.cached, WatchMapFn))

\* the outcome the normalizer gives for the network result of the refetch
RefetchOutcome == handleDataErrors(WatchMapFn, rf.data, rf.errors)

\* C11: refetch(variables) first, before the request is issued, invokes
\* onUpdate with the projected cached result when one is present and makes
\* no onUpdate call when none is present (or no variables were given); its
\* promise is pending until the network result arrives and then settles
\* with the normalized network result.
C11_RefetchCachedThenNetwork ==
  rf.pc \in {"inflight", "settled"}
    => /\ CachedPresent
            => /\ rf.issuedAt = rf.callsBefore + 1
               /\ calls[rf.issuedAt] =
                    Call("onUpdate", Field(rf.cached, WatchMapFn),
                         "refetch", nRefetch)
       /\ ~CachedPresent => rf.issuedAt = rf.callsBefore
       /\ \A k \in 1..Len(calls) :
            (calls[k].src = "refetch" /\ calls[k].em = nRefetch)
              => k <= rf.issuedAt
       /\ rf.pc = "inflight" => rf.promise = "pending"
       /\ (rf.pc = "settled" /\ ~rf.threw)
            => IF Truthy(OutErrors(RefetchOutcome))
               THEN /\ rf.promise = "rejected"
                    /\ rf.value = OutErrors(RefetchOutcome)
               ELSE /\ rf.promise = "resolved"
                    /\ rf.value = [data |-> OutData(RefetchOutcome)]

C11_Witness ==
  /\ rf.pc = "settled"
  /\ CachedPresent
  /\ rf.cached = Obj([product |-> Obj([name |-> Str("X")])])
  /\ rf.promise = "resolved"
  /\ rf.value = [data |-> Obj([name |-> Str("Y")])]
  /\ calls[rf.issuedAt].arg = Obj([name |-> Str("X")])

\* the outcome the normalizer gives for the result of the fireQuery call
FireOutcome == handleDataErrors(FireMapFn, fq.data, fq.errors)

\* C12: firePromise settles its promise once: it is pending while the
\* request is in flight; when the normalized outcome is an error it ends
\* rejected with that unified error (the later resolve has no effect),
\* otherwise it ends resolved with { data: projected }.
C12_FirePromiseSettlesOnce ==
  /\ fq.pc = "inflight" => fq.promise = "pending"
  /\ (fq.pc = "settled" /\ ~fq.threw)
       => IF Truthy(OutErrors(FireOutcome))
          THEN /\ fq.promise = "rejected"
               /\ fq.value = OutErrors(FireOutcome)
          ELSE /\ fq.promise = "resolved"
               /\ fq.value = [data |-> OutData(FireOutcome)]

C12_Witness ==
  /\ fq.pc = "settled"
  /\ ~fq.threw
  /\ Truthy(OutErrors(FireOutcome))
  /\ fq.promise = "rejected"
  /\ fq.value.tag = "ApolloError"

\* C13: when the promise factory throws or rejects, the promise returned by
\* firePromise is rejected with that same exception and handleDataErrors is
\* not run for the call.
C13_FactoryThrowBypassesNormalizer ==
  (fq.pc = "settled" /\ fq.threw)
    => /\ fq.promise = "rejected"
       /\ fq.value = NetworkError
       /\ ~fq.normalized

C13_Witness ==
  /\ fq.pc = "settled"
  /\ fq.threw
  /\ fq.promise = "rejected"
  /\ fq.value = NetworkError

\* the invocations of the callback of listener l for event number i
AuthCallsFor(l, i) ==
  {k \in 1..Len(authCalls) :
     authCalls[k].listener = l /\ authCalls[k].ev = i}

\* C14: when a response carrying the invalid-credential signal has been
\* processed, the Token Store is empty at the time the event fires, and each
\* listener registered through attachAuthListener was called exactly once
\* for that response, with authenticated = false.
C14_Invalidation ==
  \A i \in 1..Len(authEvents) :
    authEvents[i].cause = "invalid"
      => /\ authEvents[i].token = Null
         /\ \A l \in authEvents[i].registered :
              /\ Cardinality(AuthCallsFor(l, i)) = 1
              /\ \A k \in AuthCallsFor(l, i) : authCalls[k].arg = FALSE

C14_Witness ==
  \E i \in 1..Len(authEvents) :
    /\ authEvents[i].cause = "invalid"
    /\ authEvents[i].before = Str("T1")
    /\ authEvents[i].registered = Listeners
    /\ tokenStore = Null
    /\ \A l \in Listeners : Cardinality(AuthCallsFor(l, i)) = 1

\* C15: a callback passed to attachAuthListener is invoked once per "auth"
\* event fired while it is registered, with the login state of that moment
\* (true exactly when the Token Store holds a token); it is not invoked for
\* events fired before it was attached or after its unregister function
\* was called, and the other registered listeners keep receiving events.
C15_ListenerDelivery ==
  \A i \in 1..Len(authEvents) : \A l \in Listeners :
    /\ Cardinality(AuthCallsFor(l, i)) =
         (IF l \in authEvents[i].registered THEN 1 ELSE 0)
    /\ \A k \in AuthCallsFor(l, i) :
         authCalls[k].arg = (authEvents[i].token.tag = "str")

C15_Witness ==
  /\ Len(authEvents) = 2
  /\ listeners["l1"] = "removed"
  /\ authEvents[1].registered = Listeners
  /\ authEvents[2].registered = {"l2"}
  /\ authEvents[1].token.tag = "str"
  /\ authEvents[2].token = Null
  /\ Cardinality(AuthCallsFor("l1", 1)) = 1
  /\ AuthCallsFor("l1", 2) = {}
  /\ Cardinality(AuthCallsFor("l2", 2)) = 1

\* C17: for every mutation result that reaches the update option of signIn,
\* the update hook supplied by the caller is invoked exactly once, whether
\* the sign-in succeeded or failed, and after the token-storage step when
\* that step runs; without a hook nothing is invoked.
C17_CallerUpdateOnce ==
  (si.pc \in {"updated", "settled"} /\ si.ranUpdate)
    => /\ CountStep(si.steps, "options.update") =
            (IF si.hasUpdate THEN 1 ELSE 0)
       /\ si.hasUpdate => si.steps[Len(si.steps)] = "options.update"

C17_Witness ==
  /\ IsSignInFailure
  /\ si.ranUpdate
  /\ si.hasUpdate
  /\ si.steps = <<"setAuthToken", "options.update">>
  /\ si.userUpdates = 1

\* C19: for every input (mapFn, data, transportErrors) the value returned by
\* handleDataErrors has exactly one of the keys data and errors.
C19_OutcomeExclusive ==
  NormCalled => (HasKey(normOut, "data") # HasKey(normOut, "errors"))

C19_Witness ==
  /\ NormCalled
  /\ NonEmptyErrors(NormErrorsIn)
  /\ HasDomainErrors(NormDataIn)
  /\ ~isDataEmpty(NormDataIn)
  /\ HasKey(normOut, "data")
  /\ ~HasKey(normOut, "errors")

\* C16: every attempt that reaches the network, retries included, carries
\* the token the Token Store holds at that moment, and carries no credential
\* when the Token Store is empty.
C16_AuthAttach ==
  \A i \in 1..Len(sent) : sent[i].carried = Credential(sent[i].store)

\* the one-shot request failed: the factory threw, the result carries
\* transport errors and no data, or domain errors are found in the data
FireFailed ==
  /\ fq.pc = "settled"
  /\ \/ fq.threw
     \/ (NonEmptyErrors(fq.errors) /\ isDataEmpty(fq.data))
     \/ HasDomainErrors(fq.data)

\* emission i of the watched query is a failure
EmissionFailed(i) ==
  \/ (NonEmptyErrors(emitted[i].errors) /\ isDataEmpty(emitted[i].data))
  \/ HasDomainErrors(emitted[i].data)

\* C18: every failure path of the dispatch layer ends in a notification: a
\* failed one-shot request (thrown network failure, transport error list,
\* domain error) ends in a rejected promise, and a failed emission or a
\* stream error of a watched query ends in an onError invocation of the
\* onError callback the caller supplied.
C18_NoSilentFailure ==
  /\ FireFailed => fq.promise = "rejected"
  /\ \A i \in 1..Len(emitted) :
       (EmissionFailed(i) /\ wq.hasOnError)
         => NextCallsFor(i, {"onError"}) # {}
  /\ (wq.state = "closed" /\ wq.hasOnError)
       => \E k \in 1..Len(calls) :
            calls[k].cb = "onError" /\ calls[k].src = "error"

FirePartialSuccess ==
  /\ fq.pc = "settled"
  /\ ~fq.threw
  /\ (NonEmptyErrors(fq.errors) \/ HasDomainErrors(fq.data))
  /\ ~isDataEmpty(fq.data)

\* emission i of the watched query is a partial success
EmissionPartialSuccess(i) ==
  /\ (NonEmptyErrors(emitted[i].errors) \/ HasDomainErrors(emitted[i].data))
  /\ ~isDataEmpty(emitted[i].data)

\* C21: a result with domain or transport errors whose data is not empty is
\* delivered as a success: the fireQuery promise resolves with
\* { data: mapFn(data) }, and a watched query calls onUpdate once with
\* mapFn(data) and does not call onError for that result.
C21_PartialSuccessIsSuccess ==
  /\ FirePartialSuccess
       => /\ fq.promise = "resolved"
          /\ fq.value = [data |-> ApplyMapFn(FireMapFn, fq.data)]
  /\ \A i \in 1..Len(emitted) :
       EmissionPartialSuccess(i)
         => /\ NextCallsFor(i, {"onError"}) = {}
            /\ Cardinality(NextCallsFor(i, {"onUpdate"})) = 1
            /\ \A k \in NextCallsFor(i, {"onUpdate"}) :
                 calls[k].arg = ApplyMapFn(WatchMapFn, emitted[i].data)

C21_Witness ==
  /\ FirePartialSuccess
  /\ HasDomainErrors(fq.data)
  /\ fq.promise = "resolved"
  /\ Len(emitted) >= 1
  /\ EmissionPartialSuccess(1)
  /\ wq.hasOnError
  /\ NextCallsFor(1, {"onUpdate"}) # {}

\* the sign-in result carries no transport error and no domain error, and
\* the projected data (the tokenCreate payload) is not null
SignInNoErrors ==
  /\ si.pc \in {"updated", "settled"}
  /\ ~si.threw
  /\ ~NonEmptyErrors(si.errors)
  /\ ~HasDomainErrors(si.data)
  /\ SignInPayload # Null

\* C22: platform credentials are stored only during a successful sign-in (no
\* errors and non-null projected data) and only when the credential-storage
\* capability is available; without the capability a successful sign-in
\* stores nothing in the credential manager, and still stores the token and
\* resolves with the payload.
C22_CredentialsOnlyOnSuccess ==
  /\ si.stored > 0 => (SignInNoErrors /\ hasPasswordCredential)
  /\ (IsSignInSuccess /\ ~hasPasswordCredential)
       => /\ si.stored = 0
          /\ tokenStore = SignInPayload.fields.token
          /\ (si.pc = "settled"
                => /\ si.promise = "resolved"
                   /\ si.value = [data |-> SignInPayload])

\* C23: every value signIn passes to setAuthToken is a present token, never
\* null or absent, whatever tokenCreate payload the mutation returned.
C23_WritesOnlyPresentToken ==
  \A k \in 1..Len(si.wrote) : si.wrote[k].tag = "str"

\* C24: among the operations of the dispatch layer only signIn writes the
\* Token Store: no step of watchQuery, of a subscription emission or error,
\* of refetch, setOptions, a fireQuery mutation, attachAuthListener, an
\* unregister function or isLoggedIn (called by the event handlers) changes
\* the Token Store value.
C24_OnlySignInWritesToken ==
  [][tokenStore' = tokenStore /\ lastTokenOp' = lastTokenOp]_vars

C24_Witness ==
  /\ wq.state # "idle"
  /\ Len(emitted) >= 1
  /\ nRefetch >= 1
  /\ rf.pc = "settled"
  /\ rf.op = "setOptions"
  /\ fq.pc = "settled"
  /\ fq.promise = "resolved"
  /\ listeners["l1"] = "removed"
  /\ \E k \in 1..Len(authCalls) :
       authCalls[k].listener = "l1" /\ authCalls[k].arg = TRUE
  /\ tokenStore = Str("T1")
  /\ lastTokenOp = NoTokenOp

\* the step processes the invalid-credential response to a request that was
\* sent with one token while the Token Store holds a different token, stored
\* by a signIn after the request was sent
StaleInvalidResponse ==
  /\ req.pc = "network"
  /\ req'.pc = "idle"
  /\ Len(authEvents') = Len(authEvents) + 1
  /\ req.header.tag = "str"
  /\ tokenStore.tag = "str"
  /\ tokenStore # req.header
  /\ si.wrote # <<>>
  /\ si.wrote[Len(si.wrote)] = tokenStore

\* C25: when the invalid-credential response to a request sent with token T1
\* is processed after a signIn stored a different token T2, the Token Store
\* still holds T2 and no listener is told authenticated = false.
C25_StaleInvalidationKeepsSession ==
  [][StaleInvalidResponse
       => /\ tokenStore' = tokenStore
          /\ \A k \in (Len(authCalls) + 1)..Len(authCalls') :
               authCalls'[k].arg # FALSE]_vars

====
